---- MODULE Spec2Model ----
(***************************************************************************)
(* A model of the PARA organiser's two views:                              *)
(*   - ProjectView (src/unnamed/part_000): the active-project filter, the  *)
(*     progress percentage and the AI breakdown of a project;              *)
(*   - DailyView (src/components/DailyView.tsx): the add-entry form with   *)
(*     its link and classification collaborators, toggle and delete.       *)
(* Three specifications share the variables: SpecProgress (getProgress as  *)
(* a pure function), Spec (the project view) and SpecDaily (the daily      *)
(* view).                                                                  *)
(***************************************************************************)
EXTENDS Integers, Sequences, FiniteSets, TLC

VARIABLES
    \* ---- ProjectView ----
    projects,        \* the projects prop: sequence of [id, items]
    loadingId,       \* useState<string | null>(null)
    inflight,        \* handleBreakdown calls awaiting breakdownProject, per project id
    bdRejected,      \* TRUE once a handleBreakdown promise has rejected
    nextItemId,      \* stands for crypto.randomUUID(): the next fresh item id
    \* ---- getProgress as a pure function ----
    pItems,          \* the items of the project handed to getProgress
    pResult,         \* what getProgress returned, NoResult before the call
    \* ---- DailyView ----
    tasks,           \* the tasks prop
    selectedDate,
    newTaskTitle,
    manualCategory,
    isAiLoading,
    expandedArchiveId,
    addPc,           \* where the handleAddTask call in flight stands
    captured,        \* the render closure handleAddTask runs in
    sumP,            \* the summarizeLink promise
    slugP,           \* the generateShortSlug promise
    catP,            \* the categorizeTask promise
    calls,           \* collaborator and onAddTask calls of the latest handleAddTask
    lastAdd,         \* the arguments of the latest onAddTask call
    lastEvent,       \* the kind of the latest event of the daily view
    nextTaskId       \* the next fresh entry id

projVars  == <<projects, loadingId, inflight, bdRejected, nextItemId>>
progVars  == <<pItems, pResult>>
dailyVars == <<tasks, selectedDate, newTaskTitle, manualCategory, isAiLoading,
               expandedArchiveId, addPc, captured, sumP, slugP, catP, calls, lastAdd,
               lastEvent, nextTaskId>>
vars      == <<projVars, progVars, dailyVars>>

\* an optional value: absent (undefined, null) or present
None    == <<>>
Some(x) == <<x>>
The(o)  == o[1]

NoId     == "null"     \* loadingId when no project is loading
NoResult == None

(***************************************************************************)
(* Helpers on sequences.                                                   *)
(***************************************************************************)
Range(s) == {s[i] : i \in DOMAIN s}

RECURSIVE Reverse(_)
Reverse(s) == IF s = <<>> THEN <<>> ELSE Reverse(Tail(s)) \o <<Head(s)>>

RECURSIVE Repeat(_, _)
Repeat(x, n) == IF n <= 0 THEN <<>> ELSE <<x>> \o Repeat(x, n - 1)

\* items.filter(i => i.completed).length
CountCompleted(items) == Len(SelectSeq(items, LAMBDA i : i.completed))

(***************************************************************************)
(* JavaScript numbers are IEEE-754 binary64.  getProgress divides two      *)
(* integers, multiplies by 100 and rounds, each step rounding to 53        *)
(* significant bits (nearest, ties to even).  A positive double is         *)
(* [m, e]: m the 53 significand bits, least significant first, and e the   *)
(* exponent of the leading bit.                                            *)
(***************************************************************************)
MantissaBits == 53

RECURSIVE NormShift(_, _)
NormShift(c, t) == IF c >= t THEN 0 ELSE 1 + NormShift(2 * c, t)

RECURSIVE Pow2(_)
Pow2(n) == IF n = 0 THEN 1 ELSE 2 * Pow2(n - 1)

\* n quotient bits of rem/t below the binary point, most significant first
RECURSIVE DivBits(_, _, _)
DivBits(rem, t, n) ==
    IF n = 0 THEN <<>>
    ELSE IF 2 * rem >= t THEN <<1>> \o DivBits(2 * rem - t, t, n - 1)
         ELSE <<0>> \o DivBits(2 * rem, t, n - 1)

\* the remainder left after those n bits
RECURSIVE DivRem(_, _, _)
DivRem(rem, t, n) ==
    IF n = 0 THEN rem
    ELSE IF 2 * rem >= t THEN DivRem(2 * rem - t, t, n - 1)
         ELSE DivRem(2 * rem, t, n - 1)

\* a + b + carry on bit sequences, least significant bit first
RECURSIVE AddBits(_, _, _)
AddBits(a, b, carry) ==
    IF a = <<>> /\ b = <<>>
    THEN IF carry = 1 THEN <<1>> ELSE <<>>
    ELSE LET x == IF a = <<>> THEN 0 ELSE Head(a)
             y == IF b = <<>> THEN 0 ELSE Head(b)
             s == x + y + carry
             ta == IF a = <<>> THEN <<>> ELSE Tail(a)
             tb == IF b = <<>> THEN <<>> ELSE Tail(b)
         IN  <<s % 2>> \o AddBits(ta, tb, s \div 2)

ShiftLeft(a, n) == Repeat(0, n) \o a

\* bits (any length >= 53, leading bit 1, exponent e of the leading bit) rounded
\* to 53 bits, to nearest, ties to even; sticky says a nonzero tail lies below
RoundToDouble(bits, e, sticky) ==
    LET d    == Len(bits) - MantissaBits
        kept == SubSeq(bits, d + 1, Len(bits))
        half == IF d >= 1 THEN bits[d] ELSE 0
        low  == sticky \/ (\E i \in 1..(d - 1) : bits[i] = 1)
        up   == half = 1 /\ (low \/ kept[1] = 1)
        inc  == IF up THEN AddBits(kept, <<1>>, 0) ELSE kept
    IN  IF Len(inc) > MantissaBits
        THEN [m |-> SubSeq(inc, 2, Len(inc)), e |-> e + 1]
        ELSE [m |-> inc, e |-> e]

\* the double nearest to c / t, for 0 < c <= t
DivDouble(c, t) ==
    LET k    == NormShift(c, t)
        rem0 == c * Pow2(k) - t
        msb  == <<1>> \o DivBits(rem0, t, MantissaBits)
        r    == DivRem(rem0, t, MantissaBits)
    IN  RoundToDouble(Reverse(msb), -k, r > 0)

\* the double nearest to x * 100 (100 = 64 + 32 + 4)
Times100(x) ==
    LET p == AddBits(ShiftLeft(x.m, 6),
                     AddBits(ShiftLeft(x.m, 5), ShiftLeft(x.m, 2), 0), 0)
    IN  RoundToDouble(p, x.e - (MantissaBits - 1) + (Len(p) - 1), FALSE)

RECURSIVE BitsValue(_)
BitsValue(b) == IF b = <<>> THEN 0 ELSE Head(b) + 2 * BitsValue(Tail(b))

\* Math.round: floor(x + 0.5), taken exactly
MathRound(x) ==
    IF x.e < -1 THEN 0
    ELSE IF x.e = -1 THEN 1
    ELSE LET first == MantissaBits - x.e
         IN  BitsValue(SubSeq(x.m, first, MantissaBits)) + x.m[first - 1]

(***************************************************************************)
(* ProjectView: the pure functions.                                        *)
(***************************************************************************)
activeProjects_AtLeast(ps) ==
    SelectSeq(ps, LAMBDA p :
        LET total == Len(p.items)
            completed == CountCompleted(p.items)
        IN  IF total = 0 THEN TRUE ELSE total >= completed)

\* useMemo(() => projects.filter(...), [projects])
activeProjects(ps) ==
    SelectSeq(ps, LAMBDA p :
        LET total == Len(p.items)
        IN  IF total = 0 THEN TRUE
            ELSE LET completed == CountCompleted(p.items)
                 IN  total > completed \/ total = 0)

\* Math.round((completed / total) * 100); 0 / total is 0 and rounds to 0
getProgress(project) ==
    LET total == Len(project.items)
    IN  IF total = 0 THEN 0
        ELSE LET completed == CountCompleted(project.items)
             IN  IF completed = 0 THEN 0
                 ELSE MathRound(Times100(DivDouble(completed, total)))

(***************************************************************************)
(* SpecProgress: getProgress applied to projects drawn from a bounded set. *)
(* Every order of completed and pending items up to MaxPerm items, every   *)
(* count of completed items up to MaxDense items, and the projects of up   *)
(* to MaxTotal items with none, one, all but one or all items completed.   *)
(***************************************************************************)
MaxPerm  == 4
MaxDense == 40
MaxTotal == 201

Item(id, title, done) == [id |-> id, title |-> title, completed |-> done]

\* c completed items followed by t - c pending ones
Block(c, t) == [i \in 1..t |-> Item(i, "t", i <= c)]

AllOrders(n) ==
    {[i \in 1..n |-> Item(i, "t", b[i])] : b \in [1..n -> BOOLEAN]}

ProgressInputs ==
    UNION {AllOrders(n) : n \in 0..MaxPerm}
    \cup {Block(c, t) : c \in 0..MaxDense, t \in 1..MaxDense}
    \cup {Reverse(Block(c, t)) : c \in 0..MaxDense, t \in 1..MaxDense}
    \cup UNION {{Block(0, t), Block(1, t), Block(t - 1, t), Block(t, t)} :
                t \in 1..MaxTotal}

ProjInitIdle ==
    /\ projects = <<>>
    /\ loadingId = NoId
    /\ inflight = <<>>
    /\ bdRejected = FALSE
    /\ nextItemId = 1

ProgInitIdle ==
    /\ pItems = <<>>
    /\ pResult = NoResult

ProgressInit ==
    /\ pItems \in ProgressInputs
    /\ pResult = NoResult

\* progress={getProgress(p)}
ComputeProgress ==
    /\ pResult = NoResult
    /\ pResult' = Some(getProgress([id |-> "p", items |-> pItems]))
    /\ UNCHANGED <<pItems, projVars, dailyVars>>

(***************************************************************************)
(* Spec: the project view.  The item operations are props of ProjectView   *)
(* (onAddProjectItem, onUpdateProjectItem, onRemoveProjectItem); their     *)
(* bodies live in the parent component and follow the mutation contract:   *)
(* append, whole-item replace matched by id, remove by id, each a no-op    *)
(* on an unknown project id.                                               *)
(***************************************************************************)
MaxItems    == 2     \* items per project the model lets a project grow to
MaxItemIds  == 4     \* fresh item ids the model hands out
MaxInFlight == 2     \* handleBreakdown calls in flight per project
MaxSteps    == 2     \* steps breakdownProject returns at most

ProjectIds == {"p1", "p2"}
ItemTitles == {"t"}

SeqsUpTo(S, n) == UNION {[1..k -> S] : k \in 0..n}

onAddProjectItem(ps, projectId, item) ==
    [i \in DOMAIN ps |->
        IF ps[i].id = projectId
        THEN [ps[i] EXCEPT !.items = Append(@, item)]
        ELSE ps[i]]

onUpdateProjectItem(ps, projectId, item) ==
    [i \in DOMAIN ps |->
        IF ps[i].id = projectId
        THEN [ps[i] EXCEPT !.items =
                 [j \in DOMAIN @ |-> IF @[j].id = item.id THEN item ELSE @[j]]]
        ELSE ps[i]]

onRemoveProjectItem(ps, projectId, itemId) ==
    [i \in DOMAIN ps |->
        IF ps[i].id = projectId
        THEN [ps[i] EXCEPT !.items = SelectSeq(@, LAMBDA it : it.id # itemId)]
        ELSE ps[i]]

\* steps.forEach(step => onAddProjectItem(project.id, {id: uuid, title: step, ...}))
RECURSIVE AddSteps(_, _, _, _)
AddSteps(ps, projectId, steps, firstId) ==
    IF steps = <<>> THEN ps
    ELSE AddSteps(onAddProjectItem(ps, projectId, Item(firstId, Head(steps), FALSE)),
                  projectId, Tail(steps), firstId + 1)

ItemsOf(ps, projectId) ==
    IF \E i \in DOMAIN ps : ps[i].id = projectId
    THEN (CHOOSE p \in Range(ps) : p.id = projectId).items
    ELSE <<>>

\* the cards ProjectView renders: one per active project
Cards == Range(activeProjects(projects))

ProjInit ==
    /\ projects \in {<<[id |-> "p1", items |-> <<>>], [id |-> "p2", items |-> its]>> :
                       its \in {<<>>, <<Item(0, "t", FALSE)>>}}
    /\ loadingId = NoId
    /\ inflight = [p \in ProjectIds |-> 0]
    /\ bdRejected = FALSE
    /\ nextItemId = 1

\* onAddItem={(title) => onAddProjectItem(p.id, {id: uuid, title, completed: false})}
AddItem ==
    \E p \in Cards, title \in ItemTitles :
        /\ Len(p.items) < MaxItems
        /\ nextItemId <= MaxItemIds
        /\ projects' = onAddProjectItem(projects, p.id, Item(nextItemId, title, FALSE))
        /\ nextItemId' = nextItemId + 1
        /\ UNCHANGED <<loadingId, inflight, bdRejected, progVars, dailyVars>>

\* onClick={() => onUpdateItem({...item, completed: !item.completed})}
ToggleItem ==
    \E p \in Cards : \E j \in DOMAIN p.items :
        /\ projects' = onUpdateProjectItem(projects, p.id,
                            [p.items[j] EXCEPT !.completed = ~@])
        /\ UNCHANGED <<loadingId, inflight, bdRejected, nextItemId, progVars, dailyVars>>

\* onClick={() => onRemoveItem(item.id)}
RemoveItem ==
    \E p \in Cards : \E j \in DOMAIN p.items :
        /\ projects' = onRemoveProjectItem(projects, p.id, p.items[j].id)
        /\ UNCHANGED <<loadingId, inflight, bdRejected, nextItemId, progVars, dailyVars>>

\* onDelete={() => setProjects(prev => prev.filter(proj => proj.id !== p.id))}
DeleteProject ==
    \E p \in Cards :
        /\ projects' = SelectSeq(projects, LAMBDA q : q.id # p.id)
        /\ UNCHANGED <<loadingId, inflight, bdRejected, nextItemId, progVars, dailyVars>>

\* the AI Breakdown button (disabled while isLoading): handleBreakdown up to its await
handleBreakdown ==
    \E p \in Cards :
        /\ loadingId # p.id
        /\ inflight[p.id] < MaxInFlight
        /\ loadingId' = p.id
        /\ inflight' = [inflight EXCEPT ![p.id] = @ + 1]
        /\ UNCHANGED <<projects, bdRejected, nextItemId, progVars, dailyVars>>

\* breakdownProject resolves: the rest of handleBreakdown runs
BreakdownResolves ==
    \E pid \in ProjectIds, steps \in SeqsUpTo(ItemTitles, MaxSteps) :
        /\ inflight[pid] > 0
        /\ Len(ItemsOf(projects, pid)) + Len(steps) <= MaxItems
        /\ nextItemId + Len(steps) <= MaxItemIds + 1
        /\ projects' = AddSteps(projects, pid, steps, nextItemId)
        /\ nextItemId' = nextItemId + Len(steps)
        /\ loadingId' = NoId
        /\ inflight' = [inflight EXCEPT ![pid] = @ - 1]
        /\ UNCHANGED <<bdRejected, progVars, dailyVars>>

\* breakdownProject rejects: the await throws and nothing catches it
BreakdownRejects ==
    \E pid \in ProjectIds :
        /\ inflight[pid] > 0
        /\ inflight' = [inflight EXCEPT ![pid] = @ - 1]
        /\ bdRejected' = TRUE
        /\ UNCHANGED <<projects, loadingId, nextItemId, progVars, dailyVars>>

(***************************************************************************)
(* DailyView: texts are sequences of characters, so that trim, startsWith  *)
(* and the URL parser are computed and not assumed.                        *)
(***************************************************************************)
NoTaskId   == 0        \* expandedArchiveId === null; entry ids start at 1
Auto       == "Auto"
Categories == {"Projects", "Areas", "Resources", "Archives"}
Dates      == {"d1", "d2"}

Http      == <<"h", "t", "t", "p">>
Www       == <<"w", "w", "w", ".">>
TxtEmpty  == <<>>
TxtBlank  == <<" ", " ">>
TxtPlain  == <<"b", "u", "y">>
\* "https://www.a.io/p"
TxtUrl    == Http \o <<"s", ":", "/", "/">> \o Www \o <<"a", ".", "i", "o", "/", "p">>
\* "http://": starts with http, has no host
TxtBadUrl == Http \o <<":", "/", "/">>
Texts     == {TxtEmpty, TxtBlank, TxtPlain, TxtUrl, TxtBadUrl}

DisplayTitles == {"A page"}      \* what summarizeLink may resolve to
Slugs         == {"a-page"}      \* what generateShortSlug may resolve to

Letters     == {"a", "b", "h", "i", "o", "p", "s", "t", "u", "w", "y"}
SchemeChars == Letters \cup {"+", "-", "."}

RECURSIVE TrimStart(_)
TrimStart(s) == IF s # <<>> /\ Head(s) = " " THEN TrimStart(Tail(s)) ELSE s

Trim_Identity(s) == s

\* String.prototype.trim
Trim(s) == Reverse(TrimStart(Reverse(TrimStart(s))))

StartsWith(s, prefix) ==
    Len(s) >= Len(prefix) /\ SubSeq(s, 1, Len(prefix)) = prefix

\* const isUrl = (text) => text.startsWith('http')
isUrl(text) == StartsWith(text, Http)

\* the first index of character c in s, 0 when there is none
FirstIndex(s, c) ==
    IF \E i \in DOMAIN s : s[i] = c
    THEN CHOOSE i \in DOMAIN s : s[i] = c /\ \A j \in 1..(i - 1) : s[j] # c
    ELSE 0

RECURSIVE SkipSlashes(_)
SkipSlashes(s) == IF s # <<>> /\ Head(s) = "/" THEN SkipSlashes(Tail(s)) ELSE s

UrlFailure == [ok |-> FALSE, hostname |-> <<>>]

\* host[:port] up to the first "/"; the model's alphabet has no digit, so a
\* non-empty port is an invalid one
ParseAuthority(s, hostRequired) ==
    LET slash     == FirstIndex(s, "/")
        authority == IF slash = 0 THEN s ELSE SubSeq(s, 1, slash - 1)
        colon     == FirstIndex(authority, ":")
        host      == IF colon = 0 THEN authority ELSE SubSeq(authority, 1, colon - 1)
        port      == IF colon = 0 THEN <<>>
                     ELSE SubSeq(authority, colon + 1, Len(authority))
    IN  IF (hostRequired /\ host = <<>>) \/ " " \in Range(host) \/ port # <<>>
        THEN UrlFailure
        ELSE [ok |-> TRUE, hostname |-> host]

\* new URL(text) without a base: throws (ok = FALSE) or yields the hostname.
\* A scheme is a letter followed by scheme characters up to ":"; http and
\* https are special schemes, whose host must not be empty.
UrlParse(text) ==
    LET s      == Trim(text)
        colon  == FirstIndex(s, ":")
        scheme == SubSeq(s, 1, colon - 1)
        rest   == SubSeq(s, colon + 1, Len(s))
    IN  IF colon <= 1 \/ s[1] \notin Letters
           \/ (\E i \in 1..(colon - 1) : s[i] \notin SchemeChars)
        THEN UrlFailure
        ELSE IF scheme \in {Http, Http \o <<"s">>}
        THEN ParseAuthority(SkipSlashes(rest), TRUE)
        ELSE IF StartsWith(rest, <<"/", "/">>)
        THEN ParseAuthority(SubSeq(rest, 3, Len(rest)), FALSE)
        ELSE [ok |-> TRUE, hostname |-> <<>>]

\* String.prototype.replace(pattern, replacement): the first occurrence only
ReplaceFirst(s, pat, rep) ==
    LET hits == {i \in 1..(Len(s) - Len(pat) + 1) : SubSeq(s, i, i + Len(pat) - 1) = pat}
    IN  IF hits = {} THEN s
        ELSE LET i == CHOOSE k \in hits : \A h \in hits : k <= h
             IN  SubSeq(s, 1, i - 1) \o rep \o SubSeq(s, i + Len(pat), Len(s))

\* urlObj.hostname.replace('www.', '')
DomainOf(text) == ReplaceFirst(UrlParse(text).hostname, Www, <<>>)

\* linkMeta = { displayTitle, domain, favicon, slug, isPinned: false }
linkMeta(text, displayTitle, slug) ==
    [displayTitle |-> displayTitle,
     domain       |-> DomainOf(text),
     favicon      |-> <<"https://www.google.com/s2/favicons?domain=", DomainOf(text), "&sz=64">>,
     slug         |-> slug,
     isPinned     |-> FALSE]

LinkCategory_AlwaysResources(manual) == "Resources"

\* finalCategory = manualCategory === 'Auto' ? 'Resources' : manualCategory
LinkCategory(manual) == IF manual = Auto THEN "Resources" ELSE manual

(***************************************************************************)
(* SpecDaily: the daily view.  onAddTask is a prop; its body lives in the  *)
(* parent component and follows the addEntry contract: a new entry with a  *)
(* fresh id, completed = false and the supplied fields.  The collaborators *)
(* summarizeLink, generateShortSlug and categorizeTask are promises that   *)
(* the environment resolves or rejects.                                    *)
(***************************************************************************)
MaxAdds == 1     \* handleAddTask calls that get past the empty-text check

Entry(id, title, category, date, completed, meta, notes, archivedItems) ==
    [id |-> id, title |-> title, category |-> category, date |-> date,
     completed |-> completed, linkMetadata |-> meta, notes |-> notes,
     archivedItems |-> archivedItems]

\* the entries the view is constructed with: an archived project and a link
\* in Resources
InitialTasks ==
    << Entry(1, <<"o", "l", "d">>, "Archives", "d1", TRUE, None,
             Some("description"), Some(<<Item(0, "t", TRUE)>>)),
       Entry(2, TxtUrl, "Resources", "d1", FALSE,
             Some(linkMeta(TxtUrl, "A page", "a-page")), None, None) >>

FirstNewId == Len(InitialTasks) + 1

\* a collaborator's promise: not called, pending on its argument, settled
Idle         == [st |-> "idle", arg |-> None, val |-> None]
Pending(arg) == [st |-> "pending", arg |-> Some(arg), val |-> None]
Failed(p)    == [p EXCEPT !.st = "fail"]
Ok(p, v)     == [p EXCEPT !.st = "ok", !.val = Some(v)]

NoCalls == [summarizeLink |-> 0, generateShortSlug |-> 0, categorizeTask |-> 0,
            onAddTask |-> 0]

onAddTask(ts, id, title, category, date, metadata) ==
    Append(ts, Entry(id, title, category, date, FALSE, metadata, None, None))

toggleTask_NoResourcesCheck(ts, id) ==
    [i \in DOMAIN ts |->
        IF ts[i].id = id THEN [ts[i] EXCEPT !.completed = ~@] ELSE ts[i]]

\* const task = tasks.find(...); if (task?.category === 'Resources') return;
\* setTasks(prev => prev.map(t => t.id === id ? {...t, completed: !t.completed} : t))
toggleTask(ts, id) ==
    IF \E i \in DOMAIN ts : ts[i].id = id
          /\ (\A j \in 1..(i - 1) : ts[j].id # id)
          /\ ts[i].category = "Resources"
    THEN ts
    ELSE [i \in DOMAIN ts |->
             IF ts[i].id = id THEN [ts[i] EXCEPT !.completed = ~@] ELSE ts[i]]

isResources(task) == task.category = "Resources"

\* task.category === 'Archives' && task.archivedItems
isArchivedProject(task) == task.category = "Archives" /\ task.archivedItems # None

ClickGuard_NoArchiveCheck(task) == ~isResources(task)

\* onClick={() => !isResources && !isArchivedProject && toggleTask(task.id)}
ClickGuard(task) == ~isResources(task) /\ ~isArchivedProject(task)

\* tasks.filter(task => task.date === selectedDate)
filteredTasks == SelectSeq(tasks, LAMBDA t : t.date = selectedDate)

DailyInit ==
    /\ tasks = InitialTasks
    /\ selectedDate = "d1"
    /\ newTaskTitle = TxtEmpty
    /\ manualCategory = Auto
    /\ isAiLoading = FALSE
    /\ expandedArchiveId = NoTaskId
    /\ addPc = "idle"
    /\ captured = None
    /\ sumP = Idle
    /\ slugP = Idle
    /\ catP = Idle
    /\ calls = NoCalls
    /\ lastAdd = None
    /\ lastEvent = "other"
    /\ nextTaskId = FirstNewId

Finish_CurrentDate(c, cl, category, meta) ==
    /\ tasks' = onAddTask(tasks, nextTaskId, cl.title, category, selectedDate, meta)
    /\ nextTaskId' = nextTaskId + 1
    /\ lastAdd' = Some([title |-> cl.title, category |-> category,
                         date |-> selectedDate, linkMetadata |-> meta])
    /\ calls' = [c EXCEPT !.onAddTask = @ + 1]
    /\ newTaskTitle' = TxtEmpty
    /\ isAiLoading' = FALSE
    /\ addPc' = "done"

\* onAddTask(newTaskTitle, finalCategory, selectedDate, linkMeta);
\* setNewTaskTitle(''); setIsAiLoading(false);  -- in the closure cl
Finish(c, cl, category, meta) ==
    /\ tasks' = onAddTask(tasks, nextTaskId, cl.title, category, cl.selectedDate, meta)
    /\ nextTaskId' = nextTaskId + 1
    /\ lastAdd' = Some([title |-> cl.title, category |-> category,
                         date |-> cl.selectedDate, linkMetadata |-> meta])
    /\ calls' = [c EXCEPT !.onAddTask = @ + 1]
    /\ newTaskTitle' = TxtEmpty
    /\ isAiLoading' = FALSE
    /\ addPc' = "done"

\* handleAddTask suspends at an await, the loading flag set
Await(c, pc) ==
    /\ calls' = c
    /\ addPc' = pc
    /\ isAiLoading' = TRUE
    /\ lastAdd' = None
    /\ UNCHANGED <<tasks, nextTaskId, newTaskTitle>>

CatchFallback_LinkDefault(c, cl) ==
    /\ catP' = Idle
    /\ Finish(c, cl, LinkCategory(cl.manualCategory), None)

\* catch (e) { finalCategory = manualCategory === 'Auto'
\*               ? await categorizeTask(newTaskTitle) : manualCategory; }
CatchFallback(c, cl) ==
    IF cl.manualCategory = Auto
    THEN /\ catP' = Pending(cl.title)
         /\ Await([c EXCEPT !.categorizeTask = @ + 1], "awaitCategorize")
    ELSE /\ catP' = Idle
         /\ Finish(c, cl, cl.manualCategory, None)

ElseFallback_AlwaysClassify(c, cl) ==
    /\ catP' = Pending(cl.title)
    /\ Await([c EXCEPT !.categorizeTask = @ + 1], "awaitCategorize")

\* else { finalCategory = manualCategory === 'Auto'
\*          ? await categorizeTask(newTaskTitle) : manualCategory; }
ElseFallback(c, cl) ==
    IF cl.manualCategory = Auto
    THEN /\ catP' = Pending(cl.title)
         /\ Await([c EXCEPT !.categorizeTask = @ + 1], "awaitCategorize")
    ELSE /\ catP' = Idle
         /\ Finish(c, cl, cl.manualCategory, None)

\* the model follows MaxAdds additions; past them the form is left alone
AddBudget == nextTaskId < FirstNewId + MaxAdds

\* the form's onSubmit (input and button are disabled while isAiLoading):
\* handleAddTask up to its first await, or to its end when it awaits nothing
Submit ==
    /\ ~isAiLoading
    /\ lastEvent' = "submit"
    /\ UNCHANGED <<selectedDate, manualCategory, expandedArchiveId, projVars, progVars>>
    /\ IF Trim(newTaskTitle) = <<>>
       THEN UNCHANGED <<tasks, newTaskTitle, isAiLoading, addPc, captured, sumP, slugP,
                        catP, calls, lastAdd, nextTaskId>>
       ELSE LET cl == [title |-> newTaskTitle, manualCategory |-> manualCategory,
                       selectedDate |-> selectedDate]
            IN  /\ AddBudget
                /\ captured' = Some(cl)
                /\ IF isUrl(newTaskTitle)
                   THEN IF UrlParse(newTaskTitle).ok
                        THEN /\ sumP' = Pending(newTaskTitle)
                             /\ slugP' = Pending(newTaskTitle)
                             /\ catP' = Idle
                             /\ Await([NoCalls EXCEPT !.summarizeLink = 1,
                                                      !.generateShortSlug = 1],
                                      "awaitLink")
                        ELSE /\ sumP' = Idle
                             /\ slugP' = Idle
                             /\ CatchFallback(NoCalls, cl)
                   ELSE /\ sumP' = Idle
                        /\ slugP' = Idle
                        /\ ElseFallback(NoCalls, cl)

\* Promise.all([summarizeLink, generateShortSlug]) once a promise has settled:
\* it rejects with the first rejection and fulfils when both have fulfilled
LinkSettled(sum, slug) ==
    IF addPc = "awaitLink" /\ (sum.st = "fail" \/ slug.st = "fail")
    THEN CatchFallback(calls, The(captured))
    ELSE IF addPc = "awaitLink" /\ sum.st = "ok" /\ slug.st = "ok"
    THEN /\ catP' = catP
         /\ Finish(calls, The(captured), LinkCategory(The(captured).manualCategory),
                   Some(linkMeta(The(captured).title, The(sum.val), The(slug.val))))
    ELSE UNCHANGED <<tasks, nextTaskId, lastAdd, calls, newTaskTitle, isAiLoading,
                     addPc, catP>>

EnvFrame ==
    /\ lastEvent' = "other"
    /\ UNCHANGED <<captured, selectedDate, manualCategory, expandedArchiveId,
                   projVars, progVars>>

summarizeLinkResolves ==
    \E v \in DisplayTitles :
        /\ sumP.st = "pending"
        /\ sumP' = Ok(sumP, v)
        /\ slugP' = slugP
        /\ LinkSettled(Ok(sumP, v), slugP)
        /\ EnvFrame

summarizeLinkRejects ==
    /\ sumP.st = "pending"
    /\ sumP' = Failed(sumP)
    /\ slugP' = slugP
    /\ LinkSettled(Failed(sumP), slugP)
    /\ EnvFrame

generateShortSlugResolves ==
    \E v \in Slugs :
        /\ slugP.st = "pending"
        /\ slugP' = Ok(slugP, v)
        /\ sumP' = sumP
        /\ LinkSettled(sumP, Ok(slugP, v))
        /\ EnvFrame

generateShortSlugRejects ==
    /\ slugP.st = "pending"
    /\ slugP' = Failed(slugP)
    /\ sumP' = sumP
    /\ LinkSettled(sumP, Failed(slugP))
    /\ EnvFrame

\* categorizeTask resolves: finalCategory is its value and handleAddTask goes on
categorizeTaskResolves ==
    \E cat \in Categories :
        /\ addPc = "awaitCategorize"
        /\ catP' = Ok(catP, cat)
        /\ Finish(calls, The(captured), cat, None)
        /\ UNCHANGED <<sumP, slugP>>
        /\ EnvFrame

\* categorizeTask rejects: the await throws outside any try, handleAddTask ends
\* rejected and never reaches setIsAiLoading(false)
categorizeTaskRejects ==
    /\ addPc = "awaitCategorize"
    /\ catP' = Failed(catP)
    /\ addPc' = "rejected"
    /\ UNCHANGED <<tasks, nextTaskId, lastAdd, calls, newTaskTitle, isAiLoading,
                   sumP, slugP>>
    /\ EnvFrame

\* captured, the promises, calls and lastAdd record the latest handleAddTask
\* call.  The record of a call that has returned is no state of the view: it
\* is kept in the state the call ends in and dropped at the next user event.
UiFrame ==
    /\ IF addPc = "done"
       THEN /\ addPc' = "idle"
            /\ captured' = None
            /\ sumP' = Idle
            /\ slugP' = Idle
            /\ catP' = Idle
            /\ calls' = NoCalls
            /\ lastAdd' = None
       ELSE UNCHANGED <<addPc, captured, sumP, slugP, catP, calls, lastAdd>>
    /\ UNCHANGED <<nextTaskId, isAiLoading, projVars, progVars>>

\* onChange={(e) => setNewTaskTitle(e.target.value)}, disabled={isAiLoading}
TypeTitle ==
    \E text \in Texts :
        /\ ~isAiLoading
        /\ AddBudget
        /\ newTaskTitle' = text
        /\ lastEvent' = "other"
        /\ UNCHANGED <<tasks, selectedDate, manualCategory, expandedArchiveId>>
        /\ UiFrame

\* onChange={(e) => setSelectedDate(e.target.value)}
SetSelectedDate ==
    \E d \in Dates :
        /\ selectedDate' = d
        /\ lastEvent' = "other"
        /\ UNCHANGED <<tasks, newTaskTitle, manualCategory, expandedArchiveId>>
        /\ UiFrame

\* onClick={() => setManualCategory(cat)}
SetManualCategory ==
    \E cat \in Categories :
        /\ AddBudget
        /\ manualCategory' = cat
        /\ lastEvent' = "other"
        /\ UNCHANGED <<tasks, newTaskTitle, selectedDate, expandedArchiveId>>
        /\ UiFrame

\* a click on the card of a listed entry
ClickTask ==
    \E task \in Range(filteredTasks) :
        /\ tasks' = IF ClickGuard(task) THEN toggleTask(tasks, task.id) ELSE tasks
        /\ lastEvent' = "click"
        /\ UNCHANGED <<newTaskTitle, selectedDate, manualCategory, expandedArchiveId>>
        /\ UiFrame

\* deleteTask: setTasks(prev => prev.filter(t => t.id !== id))
deleteTask ==
    \E task \in Range(filteredTasks) :
        /\ tasks' = SelectSeq(tasks, LAMBDA t : t.id # task.id)
        /\ lastEvent' = "other"
        /\ UNCHANGED <<newTaskTitle, selectedDate, manualCategory, expandedArchiveId>>
        /\ UiFrame

\* setExpandedArchiveId(expandedArchiveId === task.id ? null : task.id)
ToggleArchiveDetails ==
    \E task \in Range(filteredTasks) :
        /\ isArchivedProject(task)
        /\ expandedArchiveId' = IF expandedArchiveId = task.id THEN NoTaskId ELSE task.id
        /\ lastEvent' = "other"
        /\ UNCHANGED <<tasks, newTaskTitle, selectedDate, manualCategory>>
        /\ UiFrame

(***************************************************************************)
(* The specifications.                                                     *)
(***************************************************************************)
DailyInitIdle ==
    /\ tasks = <<>>
    /\ selectedDate = "d1"
    /\ newTaskTitle = TxtEmpty
    /\ manualCategory = Auto
    /\ isAiLoading = FALSE
    /\ expandedArchiveId = NoTaskId
    /\ addPc = "idle"
    /\ captured = None
    /\ sumP = Idle
    /\ slugP = Idle
    /\ catP = Idle
    /\ calls = NoCalls
    /\ lastAdd = None
    /\ lastEvent = "other"
    /\ nextTaskId = 1

Init == ProjInit /\ ProgInitIdle /\ DailyInitIdle

Next ==
    \/ AddItem
    \/ ToggleItem
    \/ RemoveItem
    \/ DeleteProject
    \/ handleBreakdown
    \/ BreakdownResolves
    \/ BreakdownRejects

Spec == Init /\ [][Next]_vars

InitProgress == ProjInitIdle /\ ProgressInit /\ DailyInitIdle

NextProgress == ComputeProgress

SpecProgress == InitProgress /\ [][NextProgress]_vars

InitDaily == ProjInitIdle /\ ProgInitIdle /\ DailyInit

NextDaily ==
    \/ Submit
    \/ summarizeLinkResolves
    \/ summarizeLinkRejects
    \/ generateShortSlugResolves
    \/ generateShortSlugRejects
    \/ categorizeTaskResolves
    \/ categorizeTaskRejects
    \/ TypeTitle
    \/ SetSelectedDate
    \/ SetManualCategory
    \/ ClickTask
    \/ deleteTask
    \/ ToggleArchiveDetails

SpecDaily == InitDaily /\ [][NextDaily]_vars

(***************************************************************************)
(* The claims.                                                             *)
(***************************************************************************)
CompletedCount(p) == Cardinality({j \in DOMAIN p.items : p.items[j].completed = TRUE})

IsActive(p) == p \in Range(activeProjects(projects))

\* C1 (Spec): in every reachable state, a project is in the active list if
\* and only if it has no item or fewer completed items than items.
C1_ActiveIffNotAllCompleted ==
    \A i \in DOMAIN projects :
        LET p == projects[i]
        IN  IsActive(p) <=> (Len(p.items) = 0 \/ CompletedCount(p) < Len(p.items))

\* a project whose two items are both completed is hidden while another with
\* a completed and a pending item is listed
C1_Witness ==
    \E i, j \in DOMAIN projects :
        /\ Len(projects[i].items) = 2
        /\ CompletedCount(projects[i]) = 2
        /\ ~IsActive(projects[i])
        /\ Len(projects[j].items) = 2
        /\ CompletedCount(projects[j]) = 1
        /\ IsActive(projects[j])

\* C2 (SpecProgress): for a project with at least one item getProgress is an
\* integer in 0..100, and it is 100 if and only if every item is completed.
C2_HundredIffAllCompleted ==
    (pResult # NoResult /\ Len(pItems) > 0) =>
        /\ The(pResult) \in 0..100
        /\ The(pResult) = 100 <=> (\A i \in DOMAIN pItems : pItems[i].completed)

\* 100 * completed / total rounded to the nearest integer, halves up, in exact
\* integer arithmetic
HalfUpPercent(completed, total) == (200 * completed + total) \div (2 * total)

\* C11 (SpecProgress): getProgress is 0 for a project with no items and
\* otherwise 100 * completedCount / totalCount rounded to the nearest integer
\* with halves rounded up, whatever the order of the items.
C11_ProgressIsHalfUpRounding ==
    pResult # NoResult =>
        The(pResult) = IF Len(pItems) = 0 THEN 0
                       ELSE HalfUpPercent(CountCompleted(pItems), Len(pItems))

\* isLoading={loadingId === p.id}, the disabled attribute of the AI Breakdown
\* button of project pid
BreakdownDisabled(pid) == loadingId = pid

\* C12 (Spec): while a breakdown request for a project is in flight the
\* project is marked as loading and its AI Breakdown button is disabled, in
\* every interleaving of requests on several projects, and no project has two
\* requests in flight at once.
C12_InFlightProjectIsLoading ==
    \A pid \in ProjectIds :
        /\ inflight[pid] > 0 => (loadingId = pid /\ BreakdownDisabled(pid))
        /\ inflight[pid] <= 1

\* C7 (Spec): a failure of breakdownProject is not fatal to handleBreakdown:
\* no handleBreakdown call ends rejected, and once no call is in flight the
\* loading marker is cleared.
C7_BreakdownFailureNotFatal ==
    /\ ~bdRejected
    /\ (\A p \in ProjectIds : inflight[p] = 0) => loadingId = NoId

Closure == The(captured)
Added   == The(lastAdd)

LinkAttempted == captured # None /\ isUrl(Closure.title)

\* C3 (SpecDaily): a well-formed URL whose summarizeLink and generateShortSlug
\* both succeed is added exactly once, with link metadata built from the two
\* results and isPinned false, in the manual category if one was chosen and
\* in Resources otherwise, and without a call of categorizeTask.
C3_LinkSuccess ==
    (LinkAttempted /\ UrlParse(Closure.title).ok /\ sumP.st = "ok" /\ slugP.st = "ok") =>
        /\ addPc = "done"
        /\ calls.onAddTask = 1
        /\ calls.categorizeTask = 0
        /\ lastAdd # None
        /\ Added.title = Closure.title
        /\ Added.linkMetadata # None
        /\ The(Added.linkMetadata).displayTitle = The(sumP.val)
        /\ The(Added.linkMetadata).slug = The(slugP.val)
        /\ The(Added.linkMetadata).isPinned = FALSE
        /\ Added.category = IF Closure.manualCategory = Auto
                            THEN "Resources" ELSE Closure.manualCategory

\* a link added under a manual category other than Resources
C3_Witness ==
    /\ LinkAttempted
    /\ sumP.st = "ok"
    /\ slugP.st = "ok"
    /\ calls.onAddTask = 1
    /\ Closure.manualCategory = "Areas"
    /\ Added.category = "Areas"
    /\ Added.linkMetadata # None

LinkFailed ==
    /\ LinkAttempted
    /\ (~UrlParse(Closure.title).ok \/ sumP.st = "fail" \/ slugP.st = "fail")

\* C4 (SpecDaily): when link resolution fails (malformed URL, summarizeLink or
\* generateShortSlug rejecting, whichever comes first), the entry handed to
\* onAddTask has no link metadata; under Auto its category is what
\* categorizeTask returned for the raw text, otherwise the manual category.
C4_LinkFailureFallsBack ==
    (LinkFailed /\ calls.onAddTask = 1) =>
        /\ Added.title = Closure.title
        /\ Added.linkMetadata = None
        /\ IF Closure.manualCategory = Auto
           THEN /\ calls.categorizeTask = 1
                /\ catP.st = "ok"
                /\ catP.arg = Some(Closure.title)
                /\ Added.category = The(catP.val)
           ELSE /\ calls.categorizeTask = 0
                /\ Added.category = Closure.manualCategory

\* summarizeLink rejected, the slug arrived, and the classifier put the URL
\* somewhere else than Resources
C4_Witness ==
    /\ LinkFailed
    /\ UrlParse(Closure.title).ok
    /\ sumP.st = "fail"
    /\ slugP.st = "ok"
    /\ Closure.manualCategory = Auto
    /\ calls.onAddTask = 1
    /\ Added.category = "Projects"
    /\ Added.linkMetadata = None

\* C5 (SpecDaily): a non-empty text that is not URL-shaped is added without
\* link metadata; a chosen manual category (Resources included) is used as it
\* is and categorizeTask is not called, and under Auto the category is what
\* categorizeTask(text) returned.
C5_NonLinkCategory ==
    (captured # None /\ ~isUrl(Closure.title)) =>
        /\ calls.summarizeLink = 0
        /\ calls.generateShortSlug = 0
        /\ calls.categorizeTask = (IF Closure.manualCategory = Auto THEN 1 ELSE 0)
        /\ Closure.manualCategory # Auto => calls.onAddTask = 1
        /\ calls.onAddTask = 1 =>
              /\ Added.title = Closure.title
              /\ Added.linkMetadata = None
              /\ IF Closure.manualCategory = Auto
                 THEN /\ catP.st = "ok"
                      /\ catP.arg = Some(Closure.title)
                      /\ Added.category = The(catP.val)
                 ELSE Added.category = Closure.manualCategory

\* a plain text added under the manual category Resources
C5_Witness ==
    /\ captured # None
    /\ ~isUrl(Closure.title)
    /\ Closure.manualCategory = "Resources"
    /\ calls.onAddTask = 1
    /\ calls.categorizeTask = 0
    /\ Added.category = "Resources"

\* C6 (SpecDaily): a failure of categorizeTask does not abort the addition:
\* handleAddTask does not end rejected and onAddTask is called once.
C6_ClassifierFailureNotFatal ==
    catP.st = "fail" => (addPc = "done" /\ calls.onAddTask = 1)

\* C8 (SpecDaily): an entry that carries archivedItems and is still in the
\* collection is exactly as it was created.
C8_ArchivedEntryUnchanged ==
    \A i \in DOMAIN tasks :
        tasks[i].archivedItems # None => tasks[i] \in Range(InitialTasks)

\* the archived entry was expanded, an entry was added and completed, another
\* was deleted, and the latest event is a click on the archived entry, the
\* only entry listed
C8_Witness ==
    /\ expandedArchiveId = 1
    /\ \A i \in DOMAIN tasks : tasks[i].id # 2
    /\ \E i \in DOMAIN tasks : tasks[i].id = FirstNewId /\ tasks[i].completed
    /\ lastEvent = "click"
    /\ Len(filteredTasks) = 1
    /\ filteredTasks[1].id = 1
    /\ filteredTasks[1].archivedItems # None

Flipped(ts, id) ==
    [i \in DOMAIN ts |->
        IF ts[i].id = id THEN [ts[i] EXCEPT !.completed = ~ts[i].completed] ELSE ts[i]]

\* toggleTask on an entry of the collection: nothing for Resources, else a flip
C9_ToggleTaskEffect ==
    \A t \in Range(tasks) :
        toggleTask(tasks, t.id) = IF t.category = "Resources" THEN tasks
                                  ELSE Flipped(tasks, t.id)

\* a click changes nothing, or flips one listed entry that is neither in
\* Resources nor an archived project and changes nothing else; it changes
\* nothing when no such entry is listed
C9_ClickEffect ==
    lastEvent' = "click" =>
        \/ tasks' = tasks
        \/ \E t \in Range(filteredTasks) :
              /\ t.category # "Resources"
              /\ ~(t.category = "Archives" /\ t.archivedItems # None)
              /\ tasks' = Flipped(tasks, t.id)

\* no step changes the completed value of a Resources entry
C9_ResourcesCompletedFrozen ==
    \A i \in DOMAIN tasks : \A j \in DOMAIN tasks' :
        (tasks[i].category = "Resources" /\ tasks'[j].id = tasks[i].id)
            => tasks'[j].completed = tasks[i].completed

\* C9 (SpecDaily): toggling or clicking a Resources entry leaves the task
\* collection unchanged, so its completed value never changes; toggling any
\* other entry that is not an archived project flips the completed flag of
\* that entry and changes nothing else.
C9_ResourcesNeverToggled ==
    /\ []C9_ToggleTaskEffect
    /\ [][C9_ClickEffect /\ C9_ResourcesCompletedFrozen]_vars

\* an added entry was flipped by a click, and the latest event is a click on
\* the Resources entry, the only entry listed, which is still not completed
C9_Witness ==
    /\ lastEvent = "click"
    /\ Len(filteredTasks) = 1
    /\ filteredTasks[1].id = 2
    /\ filteredTasks[1].category = "Resources"
    /\ ~filteredTasks[1].completed
    /\ \E i \in DOMAIN tasks :
          tasks[i].id = FirstNewId /\ tasks[i].category # "Resources" /\ tasks[i].completed

\* empty, or nothing but white space
IsBlank(text) == \A i \in DOMAIN text : text[i] = " "

\* C10 (SpecDaily): a submit of an empty or whitespace-only text calls no
\* collaborator and not onAddTask, does not set the loading flag and leaves
\* the task collection and the input text as they are.
C10_BlankSubmitIsNoOp ==
    [][(lastEvent' = "submit" /\ IsBlank(newTaskTitle)) =>
          UNCHANGED <<tasks, newTaskTitle, isAiLoading, calls, addPc, captured,
                      sumP, slugP, catP, lastAdd, nextTaskId>>]_vars

\* the form was just submitted with a whitespace-only text
C10_Witness ==
    /\ lastEvent = "submit"
    /\ newTaskTitle = TxtBlank
    /\ ~isAiLoading

\* a handleAddTask call is suspended at an await
AddInFlight == addPc \in {"awaitLink", "awaitCategorize"}

\* the form's input and submit button: disabled={isAiLoading}
FormDisabled == isAiLoading

\* while a call is suspended the loading flag is set and the form is disabled
C13_LoadingWhileInFlight == AddInFlight => (isAiLoading /\ FormDisabled)

\* no submit while the loading flag is set, and a suspended call keeps the
\* values it took at its submit
C13_NoSubmitWhileLoading ==
    /\ isAiLoading => lastEvent' # "submit"
    /\ AddInFlight => captured' = captured

\* a submit of a non-blank text takes the text, the selected date and the
\* manual category of that moment
C13_SubmitTakesCurrentState ==
    (lastEvent' = "submit" /\ ~IsBlank(newTaskTitle)) =>
        captured' = Some([title |-> newTaskTitle, manualCategory |-> manualCategory,
                          selectedDate |-> selectedDate])

\* the entry a finished call has appended carries the text and the date of
\* its submit, and the manual category of its submit when one was chosen
C13_EntryCarriesSubmitState ==
    addPc = "done" =>
        /\ Len(tasks) > 0
        /\ tasks[Len(tasks)].id = nextTaskId - 1
        /\ tasks[Len(tasks)].title = The(captured).title
        /\ tasks[Len(tasks)].date = The(captured).selectedDate
        /\ The(captured).manualCategory # Auto =>
               tasks[Len(tasks)].category = The(captured).manualCategory

\* C13 (SpecDaily): at most one add-entry operation is in flight: from the
\* setting of the loading flag to its clearing the form accepts no further
\* submit, and the created entry carries the text, the selected date and the
\* manual category of the moment of submit, even when the selected date or
\* the manual category change while the collaborators are pending.
C13_OneAddInFlightWithSubmitState ==
    /\ [](C13_LoadingWhileInFlight /\ C13_EntryCarriesSubmitState)
    /\ [][C13_NoSubmitWhileLoading /\ C13_SubmitTakesCurrentState]_vars

\* a call has just finished after the selected date and the manual category
\* were both changed while its collaborators were pending
C13_Witness ==
    /\ addPc = "done"
    /\ calls.summarizeLink + calls.categorizeTask > 0
    /\ The(captured).manualCategory # Auto
    /\ The(captured).manualCategory # manualCategory
    /\ The(captured).selectedDate # selectedDate
    /\ tasks[Len(tasks)].date = The(captured).selectedDate
    /\ tasks[Len(tasks)].category = The(captured).manualCategory

====
